---- MODULE Spec2Model ----
(***************************************************************************)
(* craft-parts: construction of the LifecycleManager                       *)
(* (craft_parts/lifecycle_manager.py) and the deb source handler           *)
(* (craft_parts/sources/deb_source.py).                                    *)
(*                                                                         *)
(* Spec    : one call of LifecycleManager.__init__, one action per block   *)
(*           of the constructor, from the call to the raise or the return. *)
(* SpecDeb : DebSource.__init__ followed by calls of DebSource.provision.  *)
(***************************************************************************)
EXTENDS Integers, Sequences, FiniteSets, TLC

----------------------------------------------------------------------------
(* Python values.  An Optional value is a set of at most one element.      *)

None == {}

Some(x) == {x}

Get(o) == CHOOSE x \in o : TRUE

(* An argument the constructor has not consulted yet. *)
Unbound == Some("<unbound>")

UnboundList == Some(<<"<unbound>">>)

(* No exception pending. *)
NoError == <<>>

----------------------------------------------------------------------------
(* Bounds and input sets.                                                  *)

MaxParts == 2

Letters == {"a"}

Digits == {"1"}

(* application_name values: sequences of characters. *)
AppNames ==
    { <<>>, <<"1", "a">>, <<"a", "-">>, <<"_", "a">>, <<"a", "_", "1">>,
      <<"a", "\n", "a">> }

(* Part names a 'parts' mapping may use as keys. *)
PartNames == {"nil", "dump", "foo"}

(* Dependency names that are no key of the mapping. *)
UnknownPartNames == {"zz", "yy"}

(* Values given under the 'plugin' key of a part spec. *)
PluginValues == { None, Some(""), Some("nil"), Some("dump"), Some("bar") }

CHISEL_SNAP == "chisel/latest/stable"

ExtraBuildSnaps == { None, Some(<<>>), Some(<<CHISEL_SNAP>>) }

BaseLayerDirs == { None, Some("/base") }

BaseLayerHashes == { None, Some(""), Some("h") }

Range(s) == { s[i] : i \in 1..Len(s) }

(* Sequences without repetition over S, of length at most n. *)
RECURSIVE DistinctSeqs(_, _)
DistinctSeqs(S, n) ==
    IF n = 0 THEN { <<>> }
    ELSE LET shorter == DistinctSeqs(S, n - 1)
             longest == { t \in shorter : Len(t) = n - 1 }
         IN  shorter \cup
             UNION { { Append(t, x) : x \in S \ Range(t) } : t \in longest }

(* The all_parts argument: not a dict, a dict without 'parts', or a dict   *)
(* whose 'parts' mapping has the given keys in the given order.            *)
AllParts ==
    { [is_dict |-> FALSE, keys |-> {}, parts |-> <<>>],
      [is_dict |-> TRUE, keys |-> {"name"}, parts |-> <<>>] }
    \cup { [is_dict |-> TRUE, keys |-> {"parts"}, parts |-> p] :
             p \in DistinctSeqs(PartNames, MaxParts) }

(* 'after' lists of a part spec of a mapping with the given keys. *)
AfterLists(keys) ==
    LET D == keys \cup UnknownPartNames
    IN  { <<>> } \cup { <<d>> : d \in D }
        \cup { <<d, "zz">> : d \in keys } \cup { <<"zz", "yy">> }

MalformedSpec ==
    [is_dict |-> FALSE, plugin |-> None, unmarshal |-> "ok",
     extra_fields |-> FALSE, after |-> <<>>]

(* A part spec: whether it is a mapping, its 'plugin' entry (None: no such *)
(* key; Some(v): the key with value v, v = None being null), the outcome   *)
(* of the plugin's properties unmarshal, whether it has fields no schema   *)
(* knows, and its 'after' list.                                            *)
PartSpecs(keys) ==
    { MalformedSpec } \cup
    [is_dict : {TRUE},
     plugin : { None } \cup { Some(v) : v \in PluginValues },
     unmarshal : {"ok", "ValidationError", "ValueError"},
     extra_fields : BOOLEAN,
     after : AfterLists(keys)]

(* What a Part reports of the rest of its spec: an overlay, stage package  *)
(* slices, chisel among its build snaps, or none of them.                  *)
PartProperties ==
    { p \in [has_overlay : BOOLEAN, has_slices : BOOLEAN,
             has_chisel_as_build_snap : BOOLEAN] :
        Cardinality({ f \in {"o", "s", "c"} :
                        \/ f = "o" /\ p.has_overlay
                        \/ f = "s" /\ p.has_slices
                        \/ f = "c" /\ p.has_chisel_as_build_snap }) <= 1 }

NoProperties ==
    [has_overlay |-> FALSE, has_slices |-> FALSE,
     has_chisel_as_build_snap |-> FALSE]

NoSpec == MalformedSpec

VARIABLES
    pc,                       \* position in LifecycleManager.__init__
    raised,                   \* the exception the constructor raised
    application_name,
    application_package_name,
    all_parts,
    parts_data_expanded,      \* the caller's 'parts' mapping was rewritten
    partitions_valid,         \* whether validate_partition_names accepts
    strict_mode,
    kwargs,                   \* late arguments as the caller passed them
    caller_build_snaps,       \* the caller's extra_build_snaps list object
    extra_build_snaps,        \* the constructor's local binding
    base_layer_dir,           \* the constructor's local binding
    repository,               \* packages.Repository configuration
    enable_overlay,           \* Features().enable_overlay, once read
    platform,                 \* sys.platform, once read
    euid,                     \* os.geteuid(), once read
    name,                     \* loop variables of the parts loop
    spec,
    part_list,
    _has_overlay,
    _needs_chisel,
    _has_chisel,
    _sequencer,
    _executor

VARIABLES
    deb_pc,                   \* "new", "constructed" or "raised"
    deb_raised,               \* the exception DebSource.__init__ raised
    source,                   \* the source path, as its components
    source_tag,
    source_commit,
    source_branch,
    source_depth,
    source_checksum,
    source_submodules,
    files,                    \* the files that exist
    extracted,                \* <<deb file, dst>> for every extraction done
    provisions,               \* the provision calls made, last one last
    last                      \* the last provision call and its outcome

debvars ==
    <<deb_pc, deb_raised, source, source_tag, source_commit, source_branch,
      source_depth, source_checksum, source_submodules, files, extracted,
      provisions, last>>

lmvars ==
    <<pc, raised, application_name, application_package_name, all_parts,
      parts_data_expanded, partitions_valid, strict_mode, kwargs, caller_build_snaps,
      extra_build_snaps, base_layer_dir, repository, enable_overlay,
      platform, euid, name, spec, part_list, _has_overlay, _needs_chisel,
      _has_chisel, _sequencer, _executor>>

----------------------------------------------------------------------------
(* Helpers of the constructor.                                             *)

(* re.match("^[A-Za-z][0-9A-Za-z_]*$", application_name): a letter, then   *)
(* letters, digits and underscores up to the end of the string or up to a  *)
(* newline that ends it.                                                   *)
MatchApplicationName(s) ==
    LET n == IF Len(s) >= 2 /\ s[Len(s)] = "\n" THEN Len(s) - 1 ELSE Len(s)
    IN  /\ n >= 1
        /\ s[1] \in Letters
        /\ \A i \in 2..n : s[i] \in Letters \cup Digits \cup {"_"}

(* plugins.get_plugin_class: the registered plugin classes. *)
PluginRegistry ==
    [nil |-> [supports_strict_mode |-> TRUE],
     dump |-> [supports_strict_mode |-> FALSE]]

IsRegisteredPlugin(plugin_name) == plugin_name \in DOMAIN PluginRegistry

(* spec.get("plugin", ""): the value under the key, "" without the key. *)
SpecGetPlugin(s) == IF s.plugin = None THEN Some("") ELSE Get(s.plugin)

PartNameAsPluginName_NullOnly(s) == SpecGetPlugin(s) = None

(* not plugin_name: Python's truth of the value got: null and "" are false. *)
PartNameAsPluginName(s) ==
    SpecGetPlugin(s) = None \/ SpecGetPlugin(s) = Some("")

PluginName(part_name, s) ==
    IF PartNameAsPluginName(s) THEN part_name ELSE Get(SpecGetPlugin(s))

NotStrict_Ignored(strict_plugins, plugin_class) == FALSE

(* strict_plugins and not plugin_class.supports_strict_mode *)
NotStrict(strict_plugins, plugin_class) ==
    strict_plugins /\ ~plugin_class.supports_strict_mode

NoPart ==
    [name |-> "", dependencies |-> <<>>, has_overlay |-> FALSE,
     has_slices |-> FALSE, has_chisel_as_build_snap |-> FALSE]

(* Part(name, part_spec, ...): the part, or PartSpecificationError for a   *)
(* spec with fields that are no part property.                             *)
NewPart(part_name, s, props) ==
    IF s.extra_fields
    THEN [raised |-> <<"PartSpecificationError", part_name, "fields">>,
          part |-> NoPart]
    ELSE [raised |-> NoError,
          part |-> [name |-> part_name, dependencies |-> s.after,
                    has_overlay |-> props.has_overlay,
                    has_slices |-> props.has_slices,
                    has_chisel_as_build_snap |->
                        props.has_chisel_as_build_snap]]

Raise(e) == [raised |-> e, part |-> NoPart]

_build_part_StrictLast(part_name, s, strict_plugins, props) ==
    IF ~s.is_dict
    THEN Raise(<<"PartSpecificationError", part_name, "malformed">>)
    ELSE IF ~IsRegisteredPlugin(PluginName(part_name, s))
    THEN IF PartNameAsPluginName(s)
         THEN Raise(<<"UndefinedPlugin", part_name>>)
         ELSE Raise(<<"InvalidPlugin", PluginName(part_name, s), part_name>>)
    ELSE IF s.unmarshal = "ValidationError"
    THEN Raise(<<"PartSpecificationError", part_name, "validation">>)
    ELSE IF s.unmarshal = "ValueError"
    THEN Raise(<<"PartSpecificationError", part_name, "value">>)
    ELSE IF NotStrict(strict_plugins,
                      PluginRegistry[PluginName(part_name, s)])
    THEN Raise(<<"PluginNotStrict", PluginName(part_name, s), part_name>>)
    ELSE NewPart(part_name, s, props)

(* _build_part(name, spec, project_dirs, strict_plugins, partitions);      *)
(* props is what the Part built reports of its spec.                       *)
_build_part(part_name, s, strict_plugins, props) ==
    IF ~s.is_dict
    THEN Raise(<<"PartSpecificationError", part_name, "malformed">>)
    ELSE IF ~IsRegisteredPlugin(PluginName(part_name, s))
    THEN IF PartNameAsPluginName(s)
         THEN Raise(<<"UndefinedPlugin", part_name>>)
         ELSE Raise(<<"InvalidPlugin", PluginName(part_name, s), part_name>>)
    ELSE IF NotStrict(strict_plugins,
                      PluginRegistry[PluginName(part_name, s)])
    THEN Raise(<<"PluginNotStrict", PluginName(part_name, s), part_name>>)
    ELSE IF s.unmarshal = "ValidationError"
    THEN Raise(<<"PartSpecificationError", part_name, "validation">>)
    ELSE IF s.unmarshal = "ValueError"
    THEN Raise(<<"PartSpecificationError", part_name, "value">>)
    ELSE NewPart(part_name, s, props)

_validate_part_dependencies_FirstOnly(part, parts_data) ==
    LET deps == part.dependencies
    IN  IF deps # <<>> /\ deps[1] \notin Range(parts_data)
        THEN <<"InvalidPartName", deps[1]>>
        ELSE NoError

(* _validate_part_dependencies(part, parts_data): InvalidPartName for the  *)
(* first dependency that is no key of parts_data.                          *)
_validate_part_dependencies(part, parts_data) ==
    LET deps == part.dependencies
        bad == { i \in 1..Len(deps) : deps[i] \notin Range(parts_data) }
    IN  IF bad = {} THEN NoError
        ELSE LET first == CHOOSE i \in bad : \A j \in bad : i <= j
             IN  <<"InvalidPartName", deps[first]>>

(* _ensure_overlay_supported() *)
_ensure_overlay_supported(feature, sys_platform, geteuid) ==
    IF ~feature THEN <<"FeatureError", "Overlays are not supported.">>
    ELSE IF sys_platform # "linux" THEN <<"OverlayPlatformError">>
    ELSE IF geteuid # 0 THEN <<"OverlayPermissionError">>
    ELSE NoError

(* not x, for an Optional bytes or Path argument *)
Falsy(o) == o = None \/ o = Some("")

BaseLayerError_HashFirst(dir, hash) ==
    IF Falsy(hash)
    THEN <<"ValueError", "base_layer_hash must be specified if using overlays">>
    ELSE IF dir = None
    THEN <<"ValueError", "base_layer_dir must be specified if using overlays">>
    ELSE NoError

(* The base layer checks of a manager with overlays. *)
BaseLayerError(dir, hash) ==
    IF dir = None
    THEN <<"ValueError", "base_layer_dir must be specified if using overlays">>
    ELSE IF Falsy(hash)
    THEN <<"ValueError", "base_layer_hash must be specified if using overlays">>
    ELSE NoError

(* LayerHash(base_layer_hash) *)
LayerHash(digest) == [digest |-> digest]

(* The chisel build snap added to extra_build_snaps when a part declares   *)
(* slices and no part has chisel as a build snap; a None list is replaced  *)
(* by a new one, a given list is appended to in place.                     *)
AddChisel(needs_chisel, has_chisel, snaps) ==
    IF needs_chisel /\ ~has_chisel
    THEN Some(Append(IF snaps = None THEN <<>> ELSE Get(snaps), CHISEL_SNAP))
    ELSE snaps

(* What the caller's list object holds after AddChisel. *)
CallerListAfter(needs_chisel, has_chisel, snaps) ==
    IF snaps = None THEN None ELSE AddChisel(needs_chisel, has_chisel, snaps)

----------------------------------------------------------------------------
(* LifecycleManager.__init__                                               *)

LMInit ==
    /\ pc = "app_name"
    /\ raised = NoError
    /\ application_name \in AppNames
    /\ application_package_name = None
    /\ all_parts \in AllParts
    /\ parts_data_expanded = FALSE
    /\ partitions_valid \in BOOLEAN
    /\ strict_mode \in BOOLEAN
    /\ kwargs = [extra_build_snaps |-> UnboundList,
                 base_layer_dir |-> Unbound,
                 base_layer_hash |-> Unbound]
    /\ caller_build_snaps = UnboundList
    /\ extra_build_snaps = UnboundList
    /\ base_layer_dir = Unbound
    /\ repository = None
    /\ enable_overlay = None
    /\ platform = None
    /\ euid = None
    /\ name = ""
    /\ spec = NoSpec
    /\ part_list = <<>>
    /\ _has_overlay = FALSE
    /\ _needs_chisel = FALSE
    /\ _has_chisel = FALSE
    /\ _sequencer = None
    /\ _executor = None

(* raise e *)
RaiseError(e) == pc' = "raised" /\ raised' = e

Goto(label) == pc' = label /\ UNCHANGED raised

CheckApplicationName ==
    /\ pc = "app_name"
    /\ IF ~MatchApplicationName(application_name)
       THEN RaiseError(<<"InvalidApplicationName">>)
       ELSE Goto("all_parts_type")
    /\ UNCHANGED <<debvars, application_name, application_package_name, all_parts,
                   parts_data_expanded, partitions_valid, strict_mode, kwargs,
                   caller_build_snaps, extra_build_snaps, base_layer_dir,
                   repository, enable_overlay, platform, euid, name, spec,
                   part_list, _has_overlay, _needs_chisel, _has_chisel,
                   _sequencer, _executor>>

CheckAllPartsType ==
    /\ pc = "all_parts_type"
    /\ IF ~all_parts.is_dict
       THEN RaiseError(<<"TypeError", "parts definition must be a dictionary">>)
       ELSE Goto("package_name")
    /\ UNCHANGED <<debvars, application_name, application_package_name, all_parts,
                   parts_data_expanded, partitions_valid, strict_mode, kwargs,
                   caller_build_snaps, extra_build_snaps, base_layer_dir,
                   repository, enable_overlay, platform, euid, name, spec,
                   part_list, _has_overlay, _needs_chisel, _has_chisel,
                   _sequencer, _executor>>

DefaultPackageName ==
    /\ pc = "package_name"
    /\ application_package_name' =
           IF application_package_name = None
              \/ application_package_name = Some(<<>>)
           THEN Some(application_name)
           ELSE application_package_name
    /\ Goto("parts_key")
    /\ UNCHANGED <<debvars, application_name, all_parts, parts_data_expanded,
                   partitions_valid, strict_mode, kwargs, caller_build_snaps,
                   extra_build_snaps, base_layer_dir, repository,
                   enable_overlay, platform, euid, name, spec, part_list,
                   _has_overlay, _needs_chisel, _has_chisel, _sequencer,
                   _executor>>

CheckPartsKey ==
    /\ pc = "parts_key"
    /\ IF "parts" \notin all_parts.keys
       THEN RaiseError(<<"ValueError", "parts definition is missing">>)
       ELSE Goto("partitions")
    /\ UNCHANGED <<debvars, application_name, application_package_name, all_parts,
                   parts_data_expanded, partitions_valid, strict_mode, kwargs,
                   caller_build_snaps, extra_build_snaps, base_layer_dir,
                   repository, enable_overlay, platform, euid, name, spec,
                   part_list, _has_overlay, _needs_chisel, _has_chisel,
                   _sequencer, _executor>>

(* validate_partition_names(partitions) *)
ValidatePartitions ==
    /\ pc = "partitions"
    /\ IF ~partitions_valid
       THEN RaiseError(<<"PartitionError">>)
       ELSE Goto("configure")
    /\ UNCHANGED <<debvars, application_name, application_package_name, all_parts,
                   parts_data_expanded, partitions_valid, strict_mode, kwargs,
                   caller_build_snaps, extra_build_snaps, base_layer_dir,
                   repository, enable_overlay, platform, euid, name, spec,
                   part_list, _has_overlay, _needs_chisel, _has_chisel,
                   _sequencer, _executor>>

(* packages.Repository.configure(application_package_name), then the       *)
(* project dirs and the project info.                                      *)
ConfigureRepository ==
    /\ pc = "configure"
    /\ repository' = application_package_name
    /\ Goto("expand")
    /\ UNCHANGED <<debvars, application_name, application_package_name, all_parts,
                   parts_data_expanded, partitions_valid, strict_mode, kwargs,
                   caller_build_snaps, extra_build_snaps, base_layer_dir,
                   enable_overlay, platform, euid, name, spec, part_list,
                   _has_overlay, _needs_chisel, _has_chisel, _sequencer,
                   _executor>>

(* parts_data = all_parts.get("parts", {});                                *)
(* executor.expand_environment(parts_data, info=project_info): the values  *)
(* of the caller's mapping are rewritten in place where they hold          *)
(* references.                                                             *)
ExpandEnvironment ==
    /\ pc = "expand"
    /\ parts_data_expanded' = TRUE
    /\ Goto("loop")
    /\ UNCHANGED <<debvars, application_name, application_package_name, all_parts,
                   partitions_valid, strict_mode, kwargs, caller_build_snaps,
                   extra_build_snaps, base_layer_dir, repository,
                   enable_overlay, platform, euid, name, spec, part_list,
                   _has_overlay, _needs_chisel, _has_chisel, _sequencer,
                   _executor>>

(* One turn of the loop over parts_data.items(): _build_part, then         *)
(* _validate_part_dependencies, then part_list.append(part).               *)
ProcessPart ==
    /\ pc = "loop"
    /\ Len(part_list) < Len(all_parts.parts)
    /\ \E s \in PartSpecs(Range(all_parts.parts)) :
         LET part_name == all_parts.parts[Len(part_list) + 1]
             failed == _build_part(part_name, s, strict_mode, NoProperties)
         IN  /\ name' = part_name
             /\ spec' = s
             /\ IF failed.raised # NoError
                THEN RaiseError(failed.raised) /\ UNCHANGED part_list
                ELSE \E props \in PartProperties :
                       LET built ==
                               _build_part(part_name, s, strict_mode, props)
                           invalid ==
                               _validate_part_dependencies(built.part,
                                                           all_parts.parts)
                       IN  IF invalid # NoError
                           THEN RaiseError(invalid) /\ UNCHANGED part_list
                           ELSE /\ Goto("loop")
                                /\ part_list' = Append(part_list, built.part)
    /\ UNCHANGED <<debvars, application_name, application_package_name, all_parts,
                   parts_data_expanded, partitions_valid, strict_mode, kwargs,
                   caller_build_snaps, extra_build_snaps, base_layer_dir,
                   repository, enable_overlay, platform, euid, _has_overlay,
                   _needs_chisel, _has_chisel, _sequencer, _executor>>

(* After the loop: the three flags of the part list, and chisel added as   *)
(* a build snap if needed.  The loop variables are dead from here on.      *)
CollectPartFlags ==
    /\ pc = "loop"
    /\ Len(part_list) = Len(all_parts.parts)
    /\ \E snaps \in ExtraBuildSnaps :
         LET has_overlay ==
                 \E i \in 1..Len(part_list) : part_list[i].has_overlay
             needs_chisel ==
                 \E i \in 1..Len(part_list) : part_list[i].has_slices
             has_chisel ==
                 \E i \in 1..Len(part_list) :
                     part_list[i].has_chisel_as_build_snap
         IN  /\ _has_overlay' = has_overlay
             /\ _needs_chisel' = needs_chisel
             /\ _has_chisel' = has_chisel
             /\ kwargs' = [kwargs EXCEPT !.extra_build_snaps = snaps]
             /\ extra_build_snaps' = AddChisel(needs_chisel, has_chisel, snaps)
             /\ caller_build_snaps' =
                    CallerListAfter(needs_chisel, has_chisel, snaps)
    /\ name' = ""
    /\ spec' = NoSpec
    /\ Goto("overlay")
    /\ UNCHANGED <<debvars, application_name, application_package_name, all_parts,
                   parts_data_expanded, partitions_valid, strict_mode,
                   base_layer_dir, repository, enable_overlay, platform, euid,
                   part_list, _sequencer, _executor>>

(* "a base layer is mandatory if overlays are in use".  The environment   *)
(* and the arguments are recorded as far as the block consults them.       *)
CheckOverlay ==
    /\ pc = "overlay"
    /\ \E dir \in BaseLayerDirs, hash \in BaseLayerHashes :
         IF _has_overlay
         THEN \E feature \in BOOLEAN, sys_platform \in {"linux", "darwin"},
                 geteuid \in {0, 1000} :
                LET unsupported ==
                        _ensure_overlay_supported(feature, sys_platform,
                                                  geteuid)
                IN  /\ enable_overlay' = Some(feature)
                    /\ platform' = IF feature THEN Some(sys_platform) ELSE None
                    /\ euid' = IF feature /\ sys_platform = "linux"
                               THEN Some(geteuid) ELSE None
                    /\ base_layer_dir' = dir
                    /\ IF unsupported # NoError
                       THEN /\ RaiseError(unsupported)
                            /\ kwargs' = [kwargs EXCEPT !.base_layer_dir = dir]
                       ELSE /\ kwargs' = [kwargs EXCEPT
                                            !.base_layer_dir = dir,
                                            !.base_layer_hash =
                                                IF dir = None THEN Unbound
                                                ELSE hash]
                            /\ IF BaseLayerError(dir, hash) # NoError
                               THEN RaiseError(BaseLayerError(dir, hash))
                               ELSE Goto("finish")
         ELSE /\ base_layer_dir' = None
              /\ kwargs' = [kwargs EXCEPT !.base_layer_dir = dir,
                                          !.base_layer_hash = hash]
              /\ Goto("finish")
              /\ UNCHANGED <<enable_overlay, platform, euid>>
    /\ UNCHANGED <<debvars, application_name, application_package_name, all_parts,
                   parts_data_expanded, partitions_valid, strict_mode,
                   caller_build_snaps, extra_build_snaps, repository, name,
                   spec, part_list, _has_overlay, _needs_chisel, _has_chisel,
                   _sequencer, _executor>>

(* The layer hash, then the Sequencer and the Executor. *)
CreateSequencerAndExecutor ==
    /\ pc = "finish"
    /\ LET layer_hash ==
               IF ~Falsy(kwargs.base_layer_hash)
               THEN Some(LayerHash(Get(kwargs.base_layer_hash)))
               ELSE None
       IN  /\ _sequencer' = Some([part_list |-> part_list,
                                  base_layer_hash |-> layer_hash])
           /\ _executor' = Some([part_list |-> part_list,
                                 extra_build_snaps |-> extra_build_snaps,
                                 base_layer_dir |-> base_layer_dir,
                                 base_layer_hash |-> layer_hash])
    /\ Goto("done")
    /\ UNCHANGED <<debvars, application_name, application_package_name, all_parts,
                   parts_data_expanded, partitions_valid, strict_mode, kwargs,
                   caller_build_snaps, extra_build_snaps, base_layer_dir,
                   repository, enable_overlay, platform, euid, name, spec,
                   part_list, _has_overlay, _needs_chisel, _has_chisel>>

LMNext ==
    \/ CheckApplicationName
    \/ CheckAllPartsType
    \/ DefaultPackageName
    \/ CheckPartsKey
    \/ ValidatePartitions
    \/ ConfigureRepository
    \/ ExpandEnvironment
    \/ ProcessPart
    \/ CollectPartFlags
    \/ CheckOverlay
    \/ CreateSequencerAndExecutor

----------------------------------------------------------------------------
(* DebSource                                                               *)

MaxProvisions == 2

part_src_dir == <<"parts", "p", "src">>

Sources == { <<"pkg.deb">>, <<"dl", "pkg.deb">> }

OtherDeb == <<"cache", "other.deb">>

Destinations == { <<"parts", "p", "src">>, <<"tmp", "out">> }

(* os.path.basename(source) *)
Basename(path) == path[Len(path)]

(* part_src_dir / name *)
JoinPath(dir, file_name) == Append(dir, file_name)

(* src if src else self.part_src_dir / os.path.basename(self.source) *)
DebFile(src, src_path) ==
    IF src # None THEN Get(src) ELSE JoinPath(part_src_dir, Basename(src_path))

DebSourceOptionError_DepthFirst(tag, commit, branch, depth) ==
    IF depth # None /\ depth # Some(0)
    THEN <<"InvalidSourceOption", "deb", "source-depth">>
    ELSE IF tag # None /\ tag # Some("")
    THEN <<"InvalidSourceOption", "deb", "source-tag">>
    ELSE IF commit # None /\ commit # Some("")
    THEN <<"InvalidSourceOption", "deb", "source-commit">>
    ELSE IF branch # None /\ branch # Some("")
    THEN <<"InvalidSourceOption", "deb", "source-branch">>
    ELSE NoError

(* The checks of DebSource.__init__ after the base class constructor. *)
DebSourceOptionError(tag, commit, branch, depth) ==
    IF tag # None /\ tag # Some("")
    THEN <<"InvalidSourceOption", "deb", "source-tag">>
    ELSE IF commit # None /\ commit # Some("")
    THEN <<"InvalidSourceOption", "deb", "source-commit">>
    ELSE IF branch # None /\ branch # Some("")
    THEN <<"InvalidSourceOption", "deb", "source-branch">>
    ELSE IF depth # None /\ depth # Some(0)
    THEN <<"InvalidSourceOption", "deb", "source-depth">>
    ELSE NoError

UnlinkAfterExtract_Always(keep) == TRUE

(* if not keep: deb_file.unlink() *)
UnlinkAfterExtract(keep) == ~keep

NoCall ==
    [deb_file |-> <<>>, dst |-> <<>>, src |-> None, keep |-> FALSE,
     outcome |-> "none", files_before |-> {}]

DebIdle ==
    /\ deb_pc = "idle"
    /\ deb_raised = NoError
    /\ source = <<>>
    /\ source_tag = None
    /\ source_commit = None
    /\ source_branch = None
    /\ source_depth = None
    /\ source_checksum = None
    /\ source_submodules = None
    /\ files = {}
    /\ extracted = {}
    /\ provisions = 0
    /\ last = NoCall

(* The arguments of one DebSource(...) call and the files that exist. *)
DebInit ==
    /\ deb_pc = "new"
    /\ deb_raised = NoError
    /\ source \in Sources
    /\ source_tag \in { None, Some(""), Some("v1") }
    /\ source_commit \in { None, Some(""), Some("c0ffee") }
    /\ source_branch \in { None, Some(""), Some("main") }
    /\ source_depth \in { None, Some(0), Some(1) }
    /\ source_checksum \in { None, Some("sha256/ab") }
    /\ source_submodules \in { None, Some(<<"sub">>) }
    /\ files \in SUBSET { JoinPath(part_src_dir, "pkg.deb"), OtherDeb }
    /\ extracted = {}
    /\ provisions = 0
    /\ last = NoCall

(* DebSource.__init__ *)
DebSourceInit ==
    /\ deb_pc = "new"
    /\ LET e == DebSourceOptionError(source_tag, source_commit, source_branch,
                                     source_depth)
       IN  IF e # NoError
           THEN deb_pc' = "raised" /\ deb_raised' = e
           ELSE deb_pc' = "constructed" /\ UNCHANGED deb_raised
    /\ UNCHANGED <<lmvars, source, source_tag, source_commit, source_branch,
                   source_depth, source_checksum, source_submodules, files,
                   extracted, provisions, last>>

(* DebSource.provision(dst, keep, src); deb_utils.extract_deb fails on a   *)
(* file that does not exist and may fail on one that does.                 *)
Provision ==
    /\ deb_pc = "constructed"
    /\ provisions < MaxProvisions
    /\ \E dst \in Destinations, keep \in BOOLEAN,
          src \in { None, Some(OtherDeb) }, readable \in BOOLEAN :
         LET deb_file == DebFile(src, source)
             ok == deb_file \in files /\ readable
         IN  /\ extracted' = IF ok THEN extracted \cup { <<deb_file, dst>> }
                             ELSE extracted
             /\ files' = IF ok /\ UnlinkAfterExtract(keep)
                         THEN files \ { deb_file }
                         ELSE files
             /\ last' = [deb_file |-> deb_file, dst |-> dst, src |-> src,
                         keep |-> keep,
                         outcome |-> IF ok THEN "returned" ELSE "raised",
                         files_before |-> files]
    /\ provisions' = provisions + 1
    /\ UNCHANGED <<lmvars, deb_pc, deb_raised, source, source_tag,
                   source_commit, source_branch, source_depth,
                   source_checksum, source_submodules>>

DebNext ==
    \/ DebSourceInit
    \/ Provision

(* No LifecycleManager under construction. *)
LMIdle ==
    /\ pc = "idle"
    /\ raised = NoError
    /\ application_name = <<>>
    /\ application_package_name = None
    /\ all_parts = [is_dict |-> FALSE, keys |-> {}, parts |-> <<>>]
    /\ parts_data_expanded = FALSE
    /\ partitions_valid = TRUE
    /\ strict_mode = FALSE
    /\ kwargs = [extra_build_snaps |-> UnboundList,
                 base_layer_dir |-> Unbound,
                 base_layer_hash |-> Unbound]
    /\ caller_build_snaps = UnboundList
    /\ extra_build_snaps = UnboundList
    /\ base_layer_dir = Unbound
    /\ repository = None
    /\ enable_overlay = None
    /\ platform = None
    /\ euid = None
    /\ name = ""
    /\ spec = NoSpec
    /\ part_list = <<>>
    /\ _has_overlay = FALSE
    /\ _needs_chisel = FALSE
    /\ _has_chisel = FALSE
    /\ _sequencer = None
    /\ _executor = None

----------------------------------------------------------------------------
(* Specifications                                                          *)

vars == <<lmvars, debvars>>

Init == LMInit /\ DebIdle

Next == LMNext

Spec == Init /\ [][Next]_vars

InitDeb == LMIdle /\ DebInit

NextDeb == DebNext

SpecDeb == InitDeb /\ [][NextDeb]_vars

----------------------------------------------------------------------------
(* Properties of LifecycleManager.__init__ (checked under Spec)            *)

Keys == Range(all_parts.parts)

DirError ==
    <<"ValueError", "base_layer_dir must be specified if using overlays">>

OverlaySupported ==
    enable_overlay = Some(TRUE) /\ platform = Some("linux") /\ euid = Some(0)

NothingCreated == _sequencer = None /\ _executor = None

C2_BaseLayerCoupled ==
    pc = "done"
        => /\ (Get(_executor).base_layer_dir = None)
                  <=> (Get(_executor).base_layer_hash = None)
           /\ Get(_sequencer).base_layer_hash = Get(_executor).base_layer_hash
           /\ ~(kwargs.base_layer_dir # None /\ Falsy(kwargs.base_layer_hash))

(* C3: when the constructor raises, the package Repository configuration,  *)
(* the caller's 'parts' mapping and the caller's extra_build_snaps list    *)
(* are as they were before the call.                                       *)
C3_ErrorsWithoutSideEffects ==
    pc = "raised"
        => /\ repository = None
           /\ ~parts_data_expanded
           /\ caller_build_snaps = kwargs.extra_build_snaps

Count(seq, x) == Cardinality({ i \in 1..Len(seq) : seq[i] = x })

(* C4: chisel is injected into the Executor's extra build snaps exactly    *)
(* when a part declares slices and chisel is neither a build snap of a     *)
(* part nor in the caller's extra_build_snaps; the list never holds the    *)
(* chisel entry twice; without slices it is what the caller passed.        *)
C4_ChiselInjectedOnce ==
    pc = "done"
        => LET out == Get(_executor).extra_build_snaps
               given == kwargs.extra_build_snaps
               needs == \E i \in 1..Len(part_list) : part_list[i].has_slices
               present ==
                   \/ \E i \in 1..Len(part_list) :
                          part_list[i].has_chisel_as_build_snap
                   \/ given # None /\ CHISEL_SNAP \in Range(Get(given))
           IN  /\ (out # given) <=> (needs /\ ~present)
               /\ out # None => Count(Get(out), CHISEL_SNAP) <= 1
               /\ ~needs => out = given

(* The plugin name _build_part looks up for a part spec: the part name     *)
(* unless the spec gives a non-empty 'plugin' value.                       *)
EmptyPlugin(s) == s.plugin \in { None, Some(None), Some(Some("")) }

EffectivePlugin(n, s) == IF EmptyPlugin(s) THEN n ELSE Get(Get(s.plugin))

InLoop == name # ""

(* C5: with strict mode on, a part whose plugin class is resolved and      *)
(* does not support strict mode makes the constructor fail with            *)
(* PluginNotStrict(plugin name, part name), nothing being created; with    *)
(* strict mode off PluginNotStrict is never raised.                        *)
C5_PluginNotStrict ==
    /\ ( /\ strict_mode
         /\ InLoop
         /\ spec.is_dict
         /\ EffectivePlugin(name, spec) \in DOMAIN PluginRegistry
         /\ ~PluginRegistry[EffectivePlugin(name, spec)].supports_strict_mode )
           => /\ pc = "raised"
              /\ raised = <<"PluginNotStrict", EffectivePlugin(name, spec), name>>
              /\ NothingCreated
    /\ (~strict_mode /\ pc = "raised") => raised[1] # "PluginNotStrict"

C5_Witness ==
    /\ pc = "raised"
    /\ raised = <<"PluginNotStrict", "dump", "foo">>
    /\ Len(part_list) = 1
    /\ NothingCreated

(* C6, as claimed: UndefinedPlugin exactly when the part spec has no       *)
(* 'plugin' key, InvalidPlugin exactly when it has one (an empty or null   *)
(* value included).                                                        *)
C6_UndefinedIffKeyAbsent ==
    (pc = "raised" /\ raised[1] \in {"UndefinedPlugin", "InvalidPlugin"})
        => /\ (raised[1] = "UndefinedPlugin") <=> (spec.plugin = None)
           /\ (raised[1] = "InvalidPlugin") <=> (spec.plugin # None)

(* C6, amended: a part whose plugin cannot be resolved fails with          *)
(* UndefinedPlugin(part) exactly when its 'plugin' value is absent, null   *)
(* or empty (the plugin name then being the part name), and with           *)
(* InvalidPlugin(value, part) exactly when the value is non-empty.         *)
C6_UndefinedIffPluginEmpty ==
    /\ (pc = "raised" /\ raised[1] \in {"UndefinedPlugin", "InvalidPlugin"})
           => (raised[1] = "UndefinedPlugin") <=> EmptyPlugin(spec)
    /\ ( /\ InLoop
         /\ spec.is_dict
         /\ EffectivePlugin(name, spec) \notin DOMAIN PluginRegistry )
           => /\ pc = "raised"
              /\ raised = IF EmptyPlugin(spec)
                          THEN <<"UndefinedPlugin", name>>
                          ELSE <<"InvalidPlugin", Get(Get(spec.plugin)), name>>

C6_Witness ==
    /\ raised = <<"UndefinedPlugin", "foo">>
    /\ spec.plugin = Some(Some(""))

(* The defects of the part spec being processed, one per check. *)
DefectMalformed == InLoop /\ ~spec.is_dict

DefectPlugin ==
    /\ InLoop
    /\ spec.is_dict
    /\ EffectivePlugin(name, spec) \notin DOMAIN PluginRegistry

DefectStrict ==
    /\ InLoop
    /\ spec.is_dict
    /\ strict_mode
    /\ EffectivePlugin(name, spec) \in DOMAIN PluginRegistry
    /\ ~PluginRegistry[EffectivePlugin(name, spec)].supports_strict_mode

DefectProperties == InLoop /\ spec.unmarshal # "ok"

DefectFields == InLoop /\ spec.extra_fields

DefectDependencies == InLoop /\ \E d \in Range(spec.after) : d \notin Keys

BuildDefect ==
    \/ DefectMalformed
    \/ DefectPlugin
    \/ DefectStrict
    \/ DefectProperties
    \/ DefectFields

Rank(e) ==
    CASE e[1] = "InvalidApplicationName" -> 1
      [] e[1] = "TypeError" -> 2
      [] e[1] = "ValueError" /\ e[2] = "parts definition is missing" -> 3
      [] e[1] = "PartitionError" -> 4
      [] e[1] = "PartSpecificationError" /\ e[3] = "malformed" -> 5
      [] e[1] \in {"UndefinedPlugin", "InvalidPlugin"} -> 6
      [] e[1] = "PluginNotStrict" -> 7
      [] e[1] = "PartSpecificationError" /\ e[3] \in {"validation", "value"}
             -> 8
      [] e[1] = "PartSpecificationError" /\ e[3] = "fields" -> 9
      [] e[1] = "InvalidPartName" -> 10
      [] OTHER -> 11

(* Whether the input has the defect the check at a place looks for. *)
Defect(k) ==
    CASE k = 1 -> ~MatchApplicationName(application_name)
      [] k = 2 -> ~all_parts.is_dict
      [] k = 3 -> "parts" \notin all_parts.keys
      [] k = 4 -> ~partitions_valid
      [] k = 5 -> DefectMalformed
      [] k = 6 -> DefectPlugin
      [] k = 7 -> DefectStrict
      [] k = 8 -> DefectProperties
      [] k = 9 -> DefectFields
      [] k = 10 -> DefectDependencies
      [] OTHER -> _has_overlay /\ Len(part_list) = Len(all_parts.parts)

(* C10: the error raised is that of the first check, in the order          *)
(* application name, all_parts type, 'parts' key, partition names, then    *)
(* per part in mapping order malformed spec, plugin lookup, strict mode,   *)
(* plugin properties, unrecognized fields, dependencies, then overlay,     *)
(* that the input fails; a part's error comes after every part before it   *)
(* passed, an overlay error after every part passed.                       *)
C10_FirstFailingCheck ==
    pc = "raised"
        => /\ Defect(Rank(raised))
           /\ \A j \in 1..(Rank(raised) - 1) : ~Defect(j)
           /\ \A i \in 1..Len(part_list) :
                  part_list[i].name = all_parts.parts[i]
           /\ InLoop => name = all_parts.parts[Len(part_list) + 1]

C10_Witness ==
    /\ pc = "raised"
    /\ raised[1] = "PluginNotStrict"
    /\ Len(part_list) = 1
    /\ DefectProperties
    /\ DefectFields
    /\ DefectDependencies

----------------------------------------------------------------------------
(* Properties of DebSource (checked under SpecDeb)                         *)

OptionSet ==
    << source_tag \notin { None, Some("") },
       source_commit \notin { None, Some("") },
       source_branch \notin { None, Some("") },
       source_depth \notin { None, Some(0) } >>

OptionNames ==
    <<"source-tag", "source-commit", "source-branch", "source-depth">>

(* C8: a DebSource is constructed exactly when none of source_tag,         *)
(* source_commit, source_branch and source_depth is set; otherwise         *)
(* InvalidSourceOption('deb', option) names the first one set in that      *)
(* order; source_checksum and source_submodules play no part.              *)
C8_DebRejectsOptions ==
    /\ deb_pc = "constructed" => \A k \in 1..4 : ~OptionSet[k]
    /\ deb_pc = "raised"
           => \E k \in 1..4 :
                  /\ OptionSet[k]
                  /\ \A j \in 1..(k - 1) : ~OptionSet[j]
                  /\ deb_raised = <<"InvalidSourceOption", "deb", OptionNames[k]>>

C8_Witness ==
    /\ deb_pc = "raised"
    /\ deb_raised = <<"InvalidSourceOption", "deb", "source-commit">>
    /\ source_tag = Some("")
    /\ source_depth = Some(1)
    /\ source_checksum # None
    /\ source_submodules # None

(* C9: provision extracts src when given, else the file of the part        *)
(* source dir named after the basename of the source, into dst, and then   *)
(* the deb file exists exactly when keep is true; when the extraction      *)
(* fails no file is deleted.                                               *)
C9_ProvisionKeepsOrDeletes ==
    last.outcome # "none"
        => /\ last.deb_file =
                  IF last.src # None THEN Get(last.src)
                  ELSE part_src_dir \o <<"pkg.deb">>
           /\ last.outcome = "returned"
                  => /\ <<last.deb_file, last.dst>> \in extracted
                     /\ (last.deb_file \in files) <=> last.keep
           /\ last.outcome = "raised" => files = last.files_before

C9_Witness ==
    /\ last.outcome = "returned"
    /\ ~last.keep
    /\ last.src = None
    /\ source = <<"dl", "pkg.deb">>
    /\ last.deb_file \notin files
    /\ last.deb_file \in last.files_before

====
